---- MODULE Spec2Model ----
(***************************************************************************)
(* Tariff analysis (src/main.py): the CSV loader, the three tariff         *)
(* calculators, the comparator and the two GUI handlers (load_file,        *)
(* calculate_bill) as a state machine.                                     *)
(*                                                                         *)
(* Units.  kWh are integers, money is in cents: a rate of 0.40 $/kWh is    *)
(* 40, a fee of 10 $ is 1000.  A timestamp is the number of hours since    *)
(* 1970-01-01 00:00, so its hour of day is timestamp % 24.                 *)
(***************************************************************************)
EXTENDS Integers, Sequences, FiniteSets, TLC

VARIABLES
    consumption_df,  \* the global dataset: None, or <<df>> once a load succeeded
    pc,              \* "idle" | "tier_loop" | "returned": where control is
    call,            \* the running / last call: its name, arguments, locals, result
    ui,              \* the message box the handler put up (kind "none": nothing)
    loop             \* the locals of the tier loop of calculate_tiered_from_data

vars == <<consumption_df, pc, call, ui, loop>>

-----------------------------------------------------------------------------
(* Bounds and input samples *)

MaxRows == 2

\* values of the kWh column
KwhValues == {50, 250}

\* raw text of the timestamp column; the last one does not parse
RawTimestamps ==
    {"1970-01-02 07:00", "1970-01-01 20:00", "1970-01-02 22:00", "not a date"}

\* names of the first column of the file's header
HeaderNames == {"timestamp", " Timestamp ", "date"}

FlatRates == {0, 25}
Fees == {0, 1000}
Periods == {"Peak", "Shoulder", "Off-Peak"}

\* text typed into the two entries
EntryTexts == {"0.25", "10", "abc"}

-----------------------------------------------------------------------------
(* Values *)

None == <<>>
NaT == -1
Inf == -1

Min(a, b) == IF a <= b THEN a ELSE b

RECURSIVE Sum(_)
Sum(s) == IF s = <<>> THEN 0 ELSE Head(s) + Sum(Tail(s))

RECURSIVE SeqsUpTo(_, _)
SeqsUpTo(S, n) ==
    IF n = 0 THEN {<<>>}
    ELSE LET shorter == SeqsUpTo(S, n - 1)
         IN  shorter \cup {Append(s, x) : s \in shorter, x \in S}

-----------------------------------------------------------------------------
(* load_consumption_data *)

\* a CSV file: whether pandas can read it, its header, its rows <<timestamp text, kWh>>
RawRows == RawTimestamps \X KwhValues

Files ==
    {[readable |-> TRUE, header |-> <<"timestamp", "kWh">>, rows |-> r] :
        r \in SeqsUpTo(RawRows, MaxRows)}
    \cup
    {[readable |-> b, header |-> <<h, "kWh">>, rows |-> r] :
        b \in BOOLEAN, h \in HeaderNames, r \in SeqsUpTo(RawRows, 1)}

\* col.strip().lower()
strip_lower(col) ==
    CASE col = " Timestamp " -> "timestamp"
      [] col = "kWh" -> "kwh"
      [] OTHER -> col

\* the loop over df.columns: the first column whose normalised name is
\* "timestamp" is renamed, and the loop breaks
RECURSIVE rename_timestamp(_, _)
rename_timestamp(columns, i) ==
    IF i > Len(columns) THEN columns
    ELSE IF strip_lower(columns[i]) = "timestamp"
         THEN [columns EXCEPT ![i] = "timestamp"]
         ELSE rename_timestamp(columns, i + 1)

\* pd.to_datetime(text, errors="coerce")
to_datetime(text) ==
    CASE text = "1970-01-02 07:00" -> 31
      [] text = "1970-01-01 20:00" -> 20
      [] text = "1970-01-02 22:00" -> 46
      [] OTHER -> NaT

\* dropna that keeps every row
dropna_keep(rows) == rows

\* df.dropna(subset=["timestamp"]) on rows <<timestamp, kWh>>
dropna(rows) == SelectSeq(rows, LAMBDA r : r[1] # NaT)

MakeDf(rows) ==
    [columns   |-> {"timestamp", "kWh"},
     timestamp |-> [i \in 1..Len(rows) |-> rows[i][1]],
     kWh       |-> [i \in 1..Len(rows) |-> rows[i][2]],
     period    |-> <<>>]

load_consumption_data(file) ==
    IF ~file.readable THEN [raised |-> "read_csv failed", ret |-> None]
    ELSE
        LET columns == rename_timestamp(file.header, 1)
        IN  IF \A i \in 1..Len(columns) : columns[i] # "timestamp"
            THEN [raised |-> "KeyError: 'timestamp'", ret |-> None]
            ELSE
                LET parsed == [i \in 1..Len(file.rows) |->
                                  <<to_datetime(file.rows[i][1]), file.rows[i][2]>>]
                    kept == IF \E i \in 1..Len(parsed) : parsed[i][1] = NaT
                            THEN dropna(parsed)
                            ELSE parsed
                IN  [raised |-> "", ret |-> <<MakeDf(kept)>>]

-----------------------------------------------------------------------------
(* calculate_flat_rate_from_data *)

\* the flat rate with the fee added before the multiplication
calculate_flat_rate_fee_first(df, rate_per_kwh, fixed_fee) ==
    LET total_kwh == Sum(df.kWh)
    IN  total_kwh * (rate_per_kwh + fixed_fee)

calculate_flat_rate_from_data(df, rate_per_kwh, fixed_fee) ==
    LET total_kwh == Sum(df.kWh)
    IN  (total_kwh * rate_per_kwh) + fixed_fee

-----------------------------------------------------------------------------
(* classify_period *)

\* classify_period with hour 22 taken for the last Peak hour
classify_period_inclusive(hour) ==
    IF 18 <= hour /\ hour <= 22 THEN "Peak"
    ELSE IF 22 <= hour \/ hour < 7 THEN "Off-Peak"
    ELSE "Shoulder"

classify_period(hour) ==
    IF 18 <= hour /\ hour < 22 THEN "Peak"
    ELSE IF 22 <= hour \/ hour < 7 THEN "Off-Peak"
    ELSE "Shoulder"

-----------------------------------------------------------------------------
(* calculate_tou_from_data *)

\* Series.dt.hour
dt_hour(timestamp) == timestamp % 24

\* assign_period that also leaves the hour in the timestamp column
assign_period_overwrite(df) ==
    [df EXCEPT
        !.period = [i \in 1..Len(df.timestamp) |->
                       classify_period(dt_hour(df.timestamp[i]))],
        !.timestamp = [i \in 1..Len(df.timestamp) |-> dt_hour(df.timestamp[i])],
        !.columns = @ \cup {"period"}]

\* df['period'] = df['timestamp'].dt.hour.apply(classify_period)
assign_period(df) ==
    [df EXCEPT
        !.period = [i \in 1..Len(df.timestamp) |->
                       classify_period(dt_hour(df.timestamp[i]))],
        !.columns = @ \cup {"period"}]

\* groupby iterates the group keys in sorted order
SortedLabels == <<"Off-Peak", "Peak", "Shoulder">>

group_keys(df) ==
    SelectSeq(SortedLabels,
              LAMBDA p : \E i \in 1..Len(df.period) : df.period[i] = p)

\* the sum of the whole column instead of the group's
group_kwh_sum_all(df, period, i) == Sum(df.kWh)

\* group['kWh'].sum() of the group of `period`
RECURSIVE group_kwh_sum(_, _, _)
group_kwh_sum(df, period, i) ==
    IF i > Len(df.kWh) THEN 0
    ELSE (IF df.period[i] = period THEN df.kWh[i] ELSE 0)
         + group_kwh_sum(df, period, i + 1)

\* rates.get(period, 0)
rates_get(rates, period) ==
    IF period \in DOMAIN rates THEN rates[period] ELSE 0

\* the loop over the groups; tou_breakdown[period] of a period that is no key
\* of the breakdown raises KeyError
RECURSIVE tou_loop(_, _, _, _)
tou_loop(keys, df, rates, tou_breakdown) ==
    IF keys = <<>> THEN [raised |-> "", tou_breakdown |-> tou_breakdown]
    ELSE
        LET period == Head(keys)
            kwh_sum == group_kwh_sum(df, period, 1)
            rate == rates_get(rates, period)
        IN  IF period \notin DOMAIN tou_breakdown
            THEN [raised |-> "KeyError", tou_breakdown |-> tou_breakdown]
            ELSE tou_loop(Tail(keys), df, rates,
                     [tou_breakdown EXCEPT
                         ![period] = [kWh |-> kwh_sum, rate |-> @.rate,
                                      cost |-> kwh_sum * rate]])

\* sum(item["cost"] for item in tou_breakdown.values())
RECURSIVE sum_costs(_, _)
sum_costs(tou_breakdown, keys) ==
    IF keys = {} THEN 0
    ELSE LET p == CHOOSE k \in keys : TRUE
         IN  tou_breakdown[p].cost + sum_costs(tou_breakdown, keys \ {p})

\* the result: raised, the returned pair when nothing was raised, and the
\* dataframe as the call leaves it
calculate_tou_from_data(df, rates, fixed_fee) ==
    LET df1 == assign_period(df)
        initial == [p \in DOMAIN rates |-> [kWh |-> 0, rate |-> rates[p], cost |-> 0]]
        after == tou_loop(group_keys(df1), df1, rates, initial)
    IN  IF after.raised # ""
        THEN [raised |-> after.raised, ret |-> None, df |-> df1]
        ELSE [raised |-> "",
              ret |-> <<sum_costs(after.tou_breakdown, DOMAIN after.tou_breakdown)
                            + fixed_fee,
                        after.tou_breakdown>>,
              df |-> df1]

-----------------------------------------------------------------------------
(* calculate_tiered_from_data *)

\* threshold - last_threshold, where threshold may be float('inf')
ext_sub(threshold, last_threshold) ==
    IF threshold = Inf THEN Inf ELSE threshold - last_threshold

\* min(remaining, width), where width may be float('inf')
ext_min(remaining, width) ==
    IF width = Inf THEN remaining ELSE Min(remaining, width)

\* tier_block taking the cumulative threshold for the width of the tier
tier_block_cumulative(remaining, threshold, last_threshold) ==
    ext_min(remaining, threshold)

\* tier_block without the cap at `remaining`
tier_block_uncapped(remaining, threshold, last_threshold) ==
    IF threshold = Inf THEN remaining ELSE threshold - last_threshold

\* block = min(remaining, threshold - last_threshold)
tier_block(remaining, threshold, last_threshold) ==
    ext_min(remaining, ext_sub(threshold, last_threshold))

\* the locals before the loop; i is the index of the next tier
tier_init(total_kwh) ==
    [i |-> 1, remaining |-> total_kwh, last_threshold |-> 0,
     total_cost |-> 0, tier_breakdown |-> <<>>]

\* the loop's test: there is a next tier, and `if remaining <= 0: break` is not taken
tier_continue(st, tiers) == st.i <= Len(tiers) /\ ~(st.remaining <= 0)

\* one iteration of the loop body on tier = <<threshold, rate>>
tier_step(st, tier) ==
    LET block == tier_block(st.remaining, tier[1], st.last_threshold)
    IN  [i |-> st.i + 1,
         remaining |-> st.remaining - block,
         last_threshold |-> tier[1],
         total_cost |-> st.total_cost + block * tier[2],
         tier_breakdown |-> Append(st.tier_breakdown, <<block, tier[2]>>)]

RECURSIVE tier_loop(_, _)
tier_loop(st, tiers) ==
    IF tier_continue(st, tiers) THEN tier_loop(tier_step(st, tiers[st.i]), tiers)
    ELSE st

\* the returned pair <<cost, breakdown>>
calculate_tiered_from_data(df, tiers, fixed_fee) ==
    LET final == tier_loop(tier_init(Sum(df.kWh)), tiers)
    IN  <<final.total_cost + fixed_fee, final.tier_breakdown>>

-----------------------------------------------------------------------------
(* compare_tariffs_from_data *)

\* flat, then TOU (which annotates df), then tiered on the same df; an
\* exception of the TOU calculator propagates
compare_tariffs_from_data(df, flat_rate, tou_rates, tiered_tiers, fixed_fee) ==
    LET flat_cost == calculate_flat_rate_from_data(df, flat_rate, fixed_fee)
        tou == calculate_tou_from_data(df, tou_rates, fixed_fee)
    IN  IF tou.raised # ""
        THEN [raised |-> tou.raised, ret |-> None, df |-> tou.df]
        ELSE
            LET tiered == calculate_tiered_from_data(tou.df, tiered_tiers, fixed_fee)
            IN  [raised |-> "",
                 ret |-> << ("Flat Rate" :> flat_cost)
                            @@ ("Time-of-Use" :> tou.ret[1])
                            @@ ("Tiered" :> tiered[1])
                            @@ ("TOU Breakdown" :> tou.ret[2])
                            @@ ("Tiered Breakdown" :> tiered[2]) >>,
                 df |-> tou.df]

-----------------------------------------------------------------------------
(* Tariff parameters *)

\* tou_rates and tiered_tiers of calculate_bill
ExampleRates == ("Peak" :> 40) @@ ("Shoulder" :> 25) @@ ("Off-Peak" :> 15)
ExampleTiers == << <<100, 20>>, <<300, 30>>, <<Inf, 40>> >>

\* rate mappings handed to the TOU calculator: every sub-mapping of the example
RateMaps == {[p \in S |-> ExampleRates[p]] : S \in SUBSET Periods}

\* tier lists handed to the tiered calculator: the sub-schedules of the example
\* that end in the unbounded tier, one schedule without an unbounded tier and
\* one whose thresholds do not increase
TierLists ==
    {ExampleTiers,
     << <<100, 20>>, <<Inf, 40>> >>,
     << <<300, 30>>, <<Inf, 40>> >>,
     << <<Inf, 40>> >>,
     << <<100, 20>>, <<300, 30>> >>,
     << <<300, 30>>, <<100, 20>>, <<Inf, 40>> >>}

-----------------------------------------------------------------------------
(* The GUI handlers *)

\* float() that never raises
float_ok_lenient(text) == TRUE

\* float(text) of an entry's text: a rate in cents per kWh or a fee in cents
float_ok(text) == text \in {"0.25", "10"}
float_value(text) == IF text = "0.25" THEN 25 ELSE 1000

NoCall == [op |-> "none"]
NoUi == [kind |-> "none"]
NoLoop == tier_init(0)

showinfo(title, detail) == [kind |-> "showinfo", title |-> title, detail |-> detail]
showerror(title, detail) == [kind |-> "showerror", title |-> title, detail |-> detail]

Init ==
    /\ consumption_df = None
    /\ pc = "idle"
    /\ call = NoCall
    /\ ui = NoUi
    /\ loop = NoLoop

\* file_path = "" is the cancelled dialog
load_file ==
    /\ pc = "idle"
    /\ \E file_path \in {"", "data.csv"} :
        IF file_path = ""
        THEN /\ call' = [op |-> "load_file", file_path |-> file_path, raised |-> ""]
             /\ ui' = NoUi
             /\ UNCHANGED consumption_df
        ELSE \E file \in Files :
                LET r == load_consumption_data(file)
                IN  /\ call' = [op |-> "load_file", file_path |-> file_path,
                                raised |-> r.raised]
                    /\ IF r.raised = ""
                       THEN /\ consumption_df' = r.ret
                            /\ ui' = showinfo("File Loaded", file_path)
                       ELSE /\ UNCHANGED consumption_df
                            /\ ui' = showerror("Error", r.raised)
    /\ pc' = "returned"
    /\ UNCHANGED loop

\* plot_charts works on df.sort_values(...), a copy: it leaves the dataset alone
calculate_bill ==
    /\ pc = "idle"
    /\ \E flat_text \in EntryTexts, fee_text \in EntryTexts :
        LET entries == [flat_rate |-> flat_text, fixed_fee |-> fee_text]
        IN  IF consumption_df = None
            THEN /\ ui' = showerror("Error", "Please load a consumption CSV file first.")
                 /\ call' = [op |-> "calculate_bill", entries |-> entries,
                             results |-> None, raised |-> "", compared |-> FALSE]
                 /\ UNCHANGED consumption_df
            ELSE IF ~float_ok(flat_text) \/ ~float_ok(fee_text)
            THEN /\ ui' = showerror("Input Error", "Please enter valid numbers.")
                 /\ call' = [op |-> "calculate_bill", entries |-> entries,
                             results |-> None, raised |-> "", compared |-> FALSE]
                 /\ UNCHANGED consumption_df
            ELSE
                LET r == compare_tariffs_from_data(consumption_df[1],
                             float_value(flat_text), ExampleRates, ExampleTiers,
                             float_value(fee_text))
                IN  /\ consumption_df' = <<r.df>>
                    /\ call' = [op |-> "calculate_bill", entries |-> entries,
                                results |-> r.ret, raised |-> r.raised, compared |-> TRUE]
                    /\ ui' = IF r.raised = ""
                             THEN showinfo("Bill Comparison", r.ret[1])
                             ELSE NoUi
    /\ pc' = "returned"
    /\ UNCHANGED loop

-----------------------------------------------------------------------------
(* Direct calls of the calculators, on the loaded dataset *)

call_classify_period ==
    /\ pc = "idle"
    /\ \E hour \in 0..23 :
        call' = [op |-> "classify_period", hour |-> hour, ret |-> classify_period(hour)]
    /\ pc' = "returned"
    /\ UNCHANGED <<consumption_df, ui, loop>>

call_calculate_flat_rate ==
    /\ pc = "idle"
    /\ consumption_df # None
    /\ \E rate_per_kwh \in FlatRates, fixed_fee \in Fees :
        call' = [op |-> "calculate_flat_rate_from_data",
                 rate_per_kwh |-> rate_per_kwh, fixed_fee |-> fixed_fee,
                 ret |-> calculate_flat_rate_from_data(consumption_df[1],
                                                       rate_per_kwh, fixed_fee)]
    /\ pc' = "returned"
    /\ UNCHANGED <<consumption_df, ui, loop>>

call_calculate_tou ==
    /\ pc = "idle"
    /\ consumption_df # None
    /\ \E rates \in RateMaps, fixed_fee \in Fees :
        LET r == calculate_tou_from_data(consumption_df[1], rates, fixed_fee)
        IN  /\ call' = [op |-> "calculate_tou_from_data", rates |-> rates,
                        fixed_fee |-> fixed_fee, raised |-> r.raised, ret |-> r.ret]
            /\ consumption_df' = <<r.df>>
    /\ pc' = "returned"
    /\ UNCHANGED <<ui, loop>>

\* entry of calculate_tiered_from_data: the locals are set, the loop is next
call_calculate_tiered ==
    /\ pc = "idle"
    /\ consumption_df # None
    /\ \E tiers \in TierLists, fixed_fee \in Fees :
        LET total_kwh == Sum(consumption_df[1].kWh)
        IN  /\ call' = [op |-> "calculate_tiered_from_data", tiers |-> tiers,
                        fixed_fee |-> fixed_fee, total_kwh |-> total_kwh,
                        ret |-> None]
            /\ loop' = tier_init(total_kwh)
    /\ pc' = "tier_loop"
    /\ UNCHANGED <<consumption_df, ui>>

\* one iteration of the tier loop
tier_iteration ==
    /\ pc = "tier_loop"
    /\ tier_continue(loop, call.tiers)
    /\ loop' = tier_step(loop, call.tiers[loop.i])
    /\ UNCHANGED <<consumption_df, pc, call, ui>>

\* the loop is left (tiers exhausted, or break) and the pair is returned
tier_return ==
    /\ pc = "tier_loop"
    /\ ~tier_continue(loop, call.tiers)
    /\ call' = [call EXCEPT
                   !.ret = << <<loop.total_cost + call.fixed_fee,
                                loop.tier_breakdown>> >>]
    /\ pc' = "returned"
    /\ UNCHANGED <<consumption_df, ui, loop>>

call_compare_tariffs ==
    /\ pc = "idle"
    /\ consumption_df # None
    /\ \E flat_rate \in FlatRates, tou_rates \in RateMaps,
          tiered_tiers \in TierLists, fixed_fee \in Fees :
        LET r == compare_tariffs_from_data(consumption_df[1], flat_rate, tou_rates,
                                           tiered_tiers, fixed_fee)
        IN  /\ call' = [op |-> "compare_tariffs_from_data", flat_rate |-> flat_rate,
                        tou_rates |-> tou_rates, tiered_tiers |-> tiered_tiers,
                        fixed_fee |-> fixed_fee, df |-> consumption_df[1],
                        raised |-> r.raised, ret |-> r.ret]
            /\ consumption_df' = <<r.df>>
    /\ pc' = "returned"
    /\ UNCHANGED <<ui, loop>>

\* the call is over: control is back in the event loop, the message box is
\* dismissed and the result dropped
return ==
    /\ pc = "returned"
    /\ pc' = "idle"
    /\ call' = NoCall
    /\ ui' = NoUi
    /\ loop' = NoLoop
    /\ UNCHANGED consumption_df

Next ==
    \/ load_file
    \/ calculate_bill
    \/ call_classify_period
    \/ call_calculate_flat_rate
    \/ call_calculate_tou
    \/ call_calculate_tiered
    \/ tier_iteration
    \/ tier_return
    \/ call_compare_tariffs
    \/ return

Spec == Init /\ [][Next]_vars

-----------------------------------------------------------------------------
(* What the claims are stated with *)

\* the hours of a period, as the tariff defines them
PeriodHours(p) ==
    CASE p = "Peak" -> 18..21
      [] p = "Off-Peak" -> (22..23) \cup (0..6)
      [] p = "Shoulder" -> 7..17

\* the kWh of the samples with index in I, counted value by value
RECURSIVE Weighted(_, _, _)
Weighted(vals, df, I) ==
    IF vals = {} THEN 0
    ELSE LET v == CHOOSE x \in vals : TRUE
         IN  v * Cardinality({i \in I : df.kWh[i] = v}) + Weighted(vals \ {v}, df, I)

KwhOf(df, I) == Weighted({df.kWh[i] : i \in I}, df, I)

TotalKwh(df) == KwhOf(df, 1..Len(df.kWh))

\* the samples whose hour of day lies in period p
SamplesIn(df, p) ==
    {i \in 1..Len(df.timestamp) : (df.timestamp[i] % 24) \in PeriodHours(p)}

PeriodKwh(df, p) == KwhOf(df, SamplesIn(df, p))

RECURSIVE PeriodCosts(_, _, _)
PeriodCosts(df, rates, ps) ==
    IF ps = {} THEN 0
    ELSE LET p == CHOOSE x \in ps : TRUE
         IN  PeriodKwh(df, p) * rates[p] + PeriodCosts(df, rates, ps \ {p})

\* every sample falls in a period of the mapping
AllConfigured(df, rates) ==
    \A i \in 1..Len(df.timestamp) : \E p \in DOMAIN rates : i \in SamplesIn(df, p)

\* non-empty, strictly increasing finite thresholds, the last one unbounded
WellFormedTiers(tiers) ==
    /\ Len(tiers) >= 1
    /\ tiers[Len(tiers)][1] = Inf
    /\ \A i \in 1..(Len(tiers) - 1) : tiers[i][1] # Inf /\ tiers[i][1] > 0
    /\ \A i \in 1..(Len(tiers) - 2) : tiers[i][1] < tiers[i + 1][1]

\* t_(i-1), with t_0 = 0
LowerThreshold(tiers, i) == IF i = 1 THEN 0 ELSE tiers[i - 1][1]

\* min(T, t_i)
CappedAt(T, t) == IF t = Inf \/ T <= t THEN T ELSE t

UsedTiers(T, tiers) == {i \in 1..Len(tiers) : LowerThreshold(tiers, i) < T}

ExpectedBreakdown(T, tiers) ==
    [i \in 1..Cardinality(UsedTiers(T, tiers)) |->
        <<CappedAt(T, tiers[i][1]) - LowerThreshold(tiers, i), tiers[i][2]>>]

RECURSIVE SumProducts(_, _)
SumProducts(pairs, i) ==
    IF i > Len(pairs) THEN 0
    ELSE pairs[i][1] * pairs[i][2] + SumProducts(pairs, i + 1)

RECURSIVE SumAmounts(_, _)
SumAmounts(pairs, i) ==
    IF i > Len(pairs) THEN 0 ELSE pairs[i][1] + SumAmounts(pairs, i + 1)

TieredReturned == pc = "returned" /\ call.op = "calculate_tiered_from_data"

-----------------------------------------------------------------------------
(* C1 *)

\* C1: for a total T >= 0 and a well-formed tier list, calculate_tiered_from_data
\* returns as breakdown exactly the pairs (min(T, t_i) - t_(i-1), rate_i) of the
\* tiers with t_(i-1) < T, in tier order, and as cost the fixed fee plus the sum
\* of amount x rate over them; T = 250 on the example schedule costs 6500 cents
\* plus the fee, and T = 0 gives an empty breakdown and the fee alone.
C1_TieredBreakdown ==
    (TieredReturned /\ WellFormedTiers(call.tiers) /\ call.total_kwh >= 0) =>
        LET T == call.total_kwh
            cost == call.ret[1][1]
            breakdown == call.ret[1][2]
            used == UsedTiers(T, call.tiers)
        IN  /\ T = TotalKwh(consumption_df[1])
            /\ used = 1..Cardinality(used)
            /\ breakdown = ExpectedBreakdown(T, call.tiers)
            /\ cost = call.fixed_fee + SumProducts(ExpectedBreakdown(T, call.tiers), 1)
            /\ call.ret[1] = calculate_tiered_from_data(consumption_df[1], call.tiers,
                                                        call.fixed_fee)
            /\ (call.tiers = ExampleTiers /\ T = 250) => cost = 6500 + call.fixed_fee
            /\ (T = 0) => (breakdown = <<>> /\ cost = call.fixed_fee)

\* 500 kWh on the example schedule: all three tiers are used
C1_Witness ==
    /\ TieredReturned
    /\ call.tiers = ExampleTiers
    /\ call.total_kwh = 500
    /\ call.ret[1][2] = << <<100, 20>>, <<200, 30>>, <<200, 40>> >>

-----------------------------------------------------------------------------
(* C7 *)

\* C7: on a well-formed tier list and a total T >= 0 the tier loop runs at most
\* len(tiers) iterations, `remaining` is never negative, and when the loop is
\* left `remaining` is 0 and the recorded amounts sum to T.
C7_TierLoopApportions ==
    ((pc = "tier_loop" \/ TieredReturned)
        /\ WellFormedTiers(call.tiers) /\ call.total_kwh >= 0) =>
        /\ loop.i - 1 <= Len(call.tiers)
        /\ Len(loop.tier_breakdown) = loop.i - 1
        /\ loop.remaining >= 0
        /\ SumAmounts(loop.tier_breakdown, 1) + loop.remaining = call.total_kwh
        /\ (~tier_continue(loop, call.tiers)) =>
               /\ loop.remaining = 0
               /\ SumAmounts(loop.tier_breakdown, 1) = call.total_kwh
        /\ TieredReturned =>
               /\ loop.remaining = 0
               /\ SumAmounts(call.ret[1][2], 1) = call.total_kwh

\* the loop was left by its break, before the last tier, with everything apportioned
C7_Witness ==
    /\ TieredReturned
    /\ call.tiers = ExampleTiers
    /\ call.total_kwh = 300
    /\ loop.i = 3
    /\ loop.remaining = 0

-----------------------------------------------------------------------------
(* C4 *)

\* C4: classify_period maps every hour 0..23 to exactly one label: Peak exactly
\* for 18..21, Off-Peak exactly for 22..23 and 0..6, Shoulder exactly for 7..17;
\* the three hour sets are pairwise disjoint and cover the 24 hours; hour 18 is
\* Peak, hour 22 Off-Peak, hour 7 Shoulder.
C4_ClassifyPartition ==
    (pc = "returned" /\ call.op = "classify_period") =>
        LET HoursOf(p) == {h \in 0..23 : classify_period(h) = p}
        IN  /\ call.ret \in Periods
            /\ call.hour \in PeriodHours(call.ret)
            /\ \A p \in Periods \ {call.ret} : call.hour \notin PeriodHours(p)
            /\ HoursOf("Peak") = 18..21
            /\ HoursOf("Off-Peak") = (22..23) \cup (0..6)
            /\ HoursOf("Shoulder") = 7..17
            /\ \A p, q \in Periods : p # q => HoursOf(p) \cap HoursOf(q) = {}
            /\ UNION {HoursOf(p) : p \in Periods} = 0..23
            /\ (call.hour = 18) => call.ret = "Peak"
            /\ (call.hour = 22) => call.ret = "Off-Peak"
            /\ (call.hour = 7) => call.ret = "Shoulder"

C4_Witness ==
    /\ pc = "returned"
    /\ call.op = "classify_period"
    /\ call.hour = 22
    /\ call.ret = "Off-Peak"

-----------------------------------------------------------------------------
(* C8 *)

\* C8: calculate_flat_rate_from_data returns (sum of kWh) x rate_per_kwh +
\* fixed_fee; a dataset with no sample or no consumption yields the fee, and
\* with a fee of 0 doubling the rate doubles the result.
C8_FlatRate ==
    (pc = "returned" /\ call.op = "calculate_flat_rate_from_data") =>
        LET df == consumption_df[1]
        IN  /\ call.ret = TotalKwh(df) * call.rate_per_kwh + call.fixed_fee
            /\ (Len(df.kWh) = 0 \/ TotalKwh(df) = 0) => call.ret = call.fixed_fee
            /\ (call.fixed_fee = 0) =>
                   calculate_flat_rate_from_data(df, 2 * call.rate_per_kwh, 0)
                       = 2 * call.ret

\* two samples, a positive rate and a fee
C8_Witness ==
    /\ pc = "returned"
    /\ call.op = "calculate_flat_rate_from_data"
    /\ consumption_df[1].kWh = <<50, 250>>
    /\ call.rate_per_kwh = 25
    /\ call.fixed_fee = 1000
    /\ call.ret = 8500

-----------------------------------------------------------------------------
(* C3, C2 *)

TouReturned == pc = "returned" /\ call.op = "calculate_tou_from_data"

\* C3: when every sample falls in a period of the rate mapping,
\* calculate_tou_from_data returns fixed_fee + the sum over the mapping's periods
\* of (kWh of the samples of that period) x rate, and a breakdown with, for every
\* period of the mapping, its kWh, its rate and its cost; a period without a
\* sample has kWh 0 and cost 0; 50 kWh all at hour 20 cost 50 x rate[Peak] + fee.
C3_TouCost ==
    (TouReturned /\ AllConfigured(consumption_df[1], call.rates)) =>
        LET df == consumption_df[1]
            rates == call.rates
        IN  /\ call.raised = ""
            /\ call.ret[1] = call.fixed_fee + PeriodCosts(df, rates, DOMAIN rates)
            /\ DOMAIN call.ret[2] = DOMAIN rates
            /\ \A p \in DOMAIN rates :
                   /\ call.ret[2][p] = [kWh |-> PeriodKwh(df, p), rate |-> rates[p],
                                        cost |-> PeriodKwh(df, p) * rates[p]]
                   /\ (SamplesIn(df, p) = {}) =>
                          (call.ret[2][p].kWh = 0 /\ call.ret[2][p].cost = 0)
            /\ (rates = ExampleRates /\ TotalKwh(df) = 50
                    /\ \A i \in 1..Len(df.timestamp) : df.timestamp[i] % 24 = 20) =>
                   /\ call.ret[1] = 50 * 40 + call.fixed_fee
                   /\ call.ret[2]["Shoulder"].cost = 0
                   /\ call.ret[2]["Off-Peak"].cost = 0

\* two Peak samples and one period of the mapping without a sample
C3_Witness ==
    /\ TouReturned
    /\ call.rates = [p \in {"Peak", "Shoulder"} |-> ExampleRates[p]]
    /\ consumption_df[1].timestamp = <<20, 20>>
    /\ consumption_df[1].kWh = <<50, 250>>
    /\ call.ret[1] = 12000 + call.fixed_fee

\* C2: calculate_tou_from_data does not raise on a dataset with a sample whose
\* period is absent from the rate mapping: it returns, that period's consumption
\* adds nothing to the cost, and the breakdown is keyed by exactly the periods
\* of the mapping.
C2_TouUnconfiguredPeriod ==
    (TouReturned /\ ~AllConfigured(consumption_df[1], call.rates)) =>
        /\ call.raised = ""
        /\ call.ret[1] = call.fixed_fee
                           + PeriodCosts(consumption_df[1], call.rates, DOMAIN call.rates)
        /\ DOMAIN call.ret[2] = DOMAIN call.rates

-----------------------------------------------------------------------------
(* C5 *)

SchemeNames == {"Flat Rate", "Time-of-Use", "Tiered"}

\* C5: compare_tariffs_from_data returns, for any dataset and parameters, a
\* result whose scheme costs are exactly "Flat Rate", "Time-of-Use" and
\* "Tiered", each what its calculator returns alone on the same dataset and
\* fee, with the TOU and tiered breakdowns of those runs; the calculators give
\* the same whether they run before or after the TOU annotation of the dataset.
C5_CompareEqualsCalculators ==
    (pc = "returned" /\ call.op = "compare_tariffs_from_data") =>
        LET df == call.df
            flat == calculate_flat_rate_from_data(df, call.flat_rate, call.fixed_fee)
            tou == calculate_tou_from_data(df, call.tou_rates, call.fixed_fee)
            tiered == calculate_tiered_from_data(df, call.tiered_tiers, call.fixed_fee)
        IN  /\ call.raised = ""
            /\ DOMAIN call.ret[1] = SchemeNames \cup {"TOU Breakdown", "Tiered Breakdown"}
            /\ call.ret[1]["Flat Rate"] = flat
            /\ call.ret[1]["Time-of-Use"] = tou.ret[1]
            /\ call.ret[1]["Tiered"] = tiered[1]
            /\ call.ret[1]["TOU Breakdown"] = tou.ret[2]
            /\ call.ret[1]["Tiered Breakdown"] = tiered[2]
            /\ calculate_flat_rate_from_data(tou.df, call.flat_rate, call.fixed_fee) = flat
            /\ calculate_tiered_from_data(tou.df, call.tiered_tiers, call.fixed_fee) = tiered
            /\ calculate_tou_from_data(tou.df, call.tou_rates, call.fixed_fee).ret = tou.ret

-----------------------------------------------------------------------------
(* C6 *)

\* the step runs the TOU calculation on the loaded dataset
RunsTou ==
    /\ pc = "idle"
    /\ consumption_df # None
    /\ \/ call'.op \in {"calculate_tou_from_data", "compare_tariffs_from_data"}
       \/ call'.op = "calculate_bill" /\ call'.compared

\* C6: the TOU calculation, alone, within compare_tariffs_from_data or within
\* any calculate_bill request, only adds the period label to the samples: the
\* kWh and timestamp of every sample and the number and order of the samples
\* are unchanged, and the flat and tiered calculators return the same before
\* and after it.
C6_TouOnlyAnnotates ==
    [][RunsTou =>
        LET before == consumption_df[1]
            after == consumption_df'[1]
        IN  /\ consumption_df' # None
            /\ after.kWh = before.kWh
            /\ after.timestamp = before.timestamp
            /\ after.columns = before.columns \cup {"period"}
            /\ Len(after.period) = Len(after.kWh)
            /\ \A r \in FlatRates, f \in Fees :
                   calculate_flat_rate_from_data(after, r, f)
                       = calculate_flat_rate_from_data(before, r, f)
            /\ \A t \in TierLists, f \in Fees :
                   calculate_tiered_from_data(after, t, f)
                       = calculate_tiered_from_data(before, t, f)]_vars

\* calculate_bill ran the comparison on a dataset of two samples, now labelled
C6_Witness ==
    /\ pc = "returned"
    /\ call.op = "calculate_bill"
    /\ call.compared
    /\ consumption_df[1].timestamp = <<31, 46>>
    /\ consumption_df[1].period = <<"Shoulder", "Off-Peak">>

-----------------------------------------------------------------------------
(* C9 *)

NumericTexts == {"0.25", "10"}

\* C9: calculate_bill runs the comparison only if a dataset is installed and
\* both entries parse as numbers; without a dataset it reports the precondition
\* error, with a malformed entry the input error, and in both cases nothing is
\* calculated and the installed dataset is left as it was.
C9_BillPreconditions ==
    [][(pc = "idle" /\ call'.op = "calculate_bill") =>
        LET parses == /\ call'.entries.flat_rate \in NumericTexts
                      /\ call'.entries.fixed_fee \in NumericTexts
        IN  /\ call'.compared => (consumption_df # None /\ parses)
            /\ (consumption_df = None) =>
                   /\ ui' = showerror("Error", "Please load a consumption CSV file first.")
                   /\ ~call'.compared
                   /\ call'.results = None
                   /\ consumption_df' = None
            /\ (consumption_df # None /\ ~parses) =>
                   /\ ui' = showerror("Input Error", "Please enter valid numbers.")
                   /\ ~call'.compared
                   /\ call'.results = None
                   /\ consumption_df' = consumption_df
            /\ (consumption_df # None /\ parses) =>
                   /\ call'.compared
                   /\ ui'.kind = "showinfo"]_vars

\* a malformed fee on a loaded dataset
C9_Witness ==
    /\ pc = "returned"
    /\ call.op = "calculate_bill"
    /\ consumption_df # None
    /\ call.entries = [flat_rate |-> "0.25", fixed_fee |-> "abc"]
    /\ ui.kind = "showerror"
    /\ ui.title = "Input Error"

-----------------------------------------------------------------------------
(* C10 *)

LoadFileStep == pc = "idle" /\ call'.op = "load_file"

\* what every load_file leaves: a failed or cancelled load installs nothing,
\* only a successful one replaces the dataset, and no installed row has an
\* unparsed timestamp
LoadInstallsNothingPartial ==
    /\ (call'.file_path = "" \/ call'.raised # "") => consumption_df' = consumption_df
    /\ (consumption_df' # consumption_df) => (call'.file_path # "" /\ call'.raised = "")
    /\ (call'.file_path # "" /\ call'.raised = "") =>
           /\ consumption_df' # None
           /\ "period" \notin consumption_df'[1].columns
           /\ ui' = showinfo("File Loaded", call'.file_path)
    /\ (consumption_df' # None) =>
           \A i \in 1..Len(consumption_df'[1].timestamp) :
               consumption_df'[1].timestamp[i] # NaT

\* C10 as stated: a load_file that fails (unreadable file, wrong format or a
\* cancelled dialog) installs nothing and is reported with its cause; only a
\* load that succeeds replaces the dataset, which never holds a row whose
\* timestamp failed to parse.
C10_FailedLoadReported ==
    [][LoadFileStep =>
        /\ LoadInstallsNothingPartial
        /\ (call'.file_path = "" \/ call'.raised # "") =>
               (ui'.kind = "showerror" /\ ui'.title = "Error")]_vars

\* C10, amended: a load that raises is reported with its cause; a cancelled
\* dialog puts up no message at all.
C10_FailedLoadInstallsNothing ==
    [][LoadFileStep =>
        /\ LoadInstallsNothingPartial
        /\ (call'.raised # "") => ui' = showerror("Error", call'.raised)
        /\ (call'.file_path = "") => (ui' = NoUi /\ call'.raised = "")]_vars

\* a load failed while a dataset was installed
C10_Witness ==
    /\ pc = "returned"
    /\ call.op = "load_file"
    /\ call.raised = "KeyError: 'timestamp'"
    /\ ui.kind = "showerror"
    /\ consumption_df # None
    /\ Len(consumption_df[1].kWh) = 2

====
